---- MODULE Spec2Model ----
(***************************************************************************)
(* The in-memory record store (server/storage.ts, MemStorage), the request *)
(* handlers that drive it (server/routes.ts) and the export precondition   *)
(* check (server/export.ts) of the book generator.                         *)
(*                                                                         *)
(* Records keep the fields the lifecycle reads or writes: status, target   *)
(* and current word count and progress of a Book; owner, approval flag and *)
(* approval time of an Outline; owner, number, content and word count of a *)
(* Chapter.  Titles, genres and the created/updated timestamps are left    *)
(* out.  randomUUID() is a counter: an id is never issued twice.           *)
(***************************************************************************)
EXTENDS Integers, Sequences, FiniteSets, TLC

\* ------------------------------------------------------------------ bounds
MaxCreated == 3    \* records (books, outlines, chapters) created in one run
MaxTasks   == 2    \* updateChapter invocations in flight at once

\* ------------------------------------------------------------------ values
Statuses == {"idea", "outline", "approved", "writing", "completed"}

\* Content is a sequence of characters; " " stands for any whitespace.
Null  == <<"null">>          \* the JSON null, told apart from every text
\* The texts requests carry: a blank one and a one-word one.  The empty
\* text is falsy like null and takes null's path through every operation.
Texts == {<<" ">>, <<"a">>}

\* The targetWordCount and chapterNumber values requests carry.
Targets        == {1, 3}
ChapterNumbers == {1, 2}

\* JavaScript truthiness of a nullable string: null and "" are falsy.
Truthy(c) == c # Null /\ c # <<>>

\* {...a, ...b}: the fields of b win, the others come from a.
Spread(a, b) == b @@ a

Has(rec, key) == key \in DOMAIN rec

NoFields == [k \in {} |-> 0]

\* ------------------------------------------------------------------- state
VARIABLES
    books,      \* MemStorage.books: id -> Book
    outlines,   \* MemStorage.outlines: id -> Outline
    chapters,   \* MemStorage.chapters: id -> Chapter
    nextId,     \* the ids randomUUID() has not handed out yet, per map
    tasks,      \* updateChapter invocations suspended at an await
    settings,   \* MemStorage.settings: its records in insertion order
    bookIdeas,  \* MemStorage.bookIdeas: how many ideas are stored
    gen         \* the generation request in flight in OpenRouterService

vars == <<books, outlines, chapters, nextId, tasks, settings, bookIdeas, gen>>

\* What the routes that never reach OpenRouterService leave alone.
generation == <<settings, bookIdeas, gen>>

\* The records created so far; a create request needs room for one more.
Created == (nextId.book - 1) + (nextId.outline - 1) + (nextId.chapter - 1)
Room    == Created < MaxCreated

\* Ids a client can name: those some response has shown it.
IssuedBooks    == 1..(nextId.book - 1)
IssuedOutlines == 1..(nextId.outline - 1)
IssuedChapters == 1..(nextId.chapter - 1)

Remove(map, keys) == [k \in DOMAIN map \ keys |-> map[k]]

\* ------------------------------------------------------------ word counting
\* The line break of a text.
LF == "\n"

\* What trim() and \s take for whitespace, among the characters used here.
IsSpace(ch) == ch \in {" ", LF}

\* content.trim().split(/\s+/).filter(word => word.length > 0).length:
\* the number of maximal runs of non-whitespace characters.
countWords(content) ==
    Cardinality({i \in 1..Len(content) :
        /\ ~IsSpace(content[i])
        /\ (i = 1 \/ IsSpace(content[i - 1]))})

\* Math.round(x) for x = num / den >= 0 is floor(x + 1/2).
Round(num, den) == (2 * num + den) \div (2 * den)

Min(a, b) == IF a < b THEN a ELSE b

\* Math.min(Math.round((totalWords / book.targetWordCount) * 100), 100)
calcProgress(totalWords, targetWordCount) ==
    Min(Round(100 * totalWords, targetWordCount), 100)

\* ------------------------------------------------------------------- books
\* A lookup gives the record in a one-element sequence, or <<>> for undefined.
getBook(bks, id) == IF id \in DOMAIN bks THEN <<bks[id]>> ELSE <<>>

createBook(bks, id, insertBook) ==
    bks @@ (id :> [
        status           |-> IF Has(insertBook, "status")
                             THEN insertBook.status ELSE "idea",
        targetWordCount  |-> insertBook.targetWordCount,
        currentWordCount |-> 0,
        progress         |-> 0])

updateBook(bks, id, updates) ==
    IF id \notin DOMAIN bks THEN bks
    ELSE [bks EXCEPT ![id] = Spread(bks[id], updates)]

\* ---------------------------------------------------------------- chapters
\* The chapters of a book as the array the filter and the stable sort give:
\* by chapterNumber, ties in insertion (id) order.
RECURSIVE SortChapters(_, _)
SortChapters(chs, ids) ==
    IF ids = {} THEN <<>>
    ELSE LET first == CHOOSE i \in ids : \A j \in ids :
                        \/ chs[i].chapterNumber < chs[j].chapterNumber
                        \/ /\ chs[i].chapterNumber = chs[j].chapterNumber
                           /\ i <= j
         IN  <<chs[first]>> \o SortChapters(chs, ids \ {first})

getChaptersByBookId(chs, bookId) ==
    SortChapters(chs, {i \in DOMAIN chs : chs[i].bookId = bookId})

createChapter(chs, id, insertChapter) ==
    chs @@ (id :> [
        id            |-> id,
        bookId        |-> insertChapter.bookId,
        outlineId     |-> insertChapter.outlineId,
        chapterNumber |-> insertChapter.chapterNumber,
        content       |-> IF Has(insertChapter, "content") /\ Truthy(insertChapter.content)
                          THEN insertChapter.content ELSE Null,
        wordCount     |-> 0])

\* updates.content ? <count> : (existing.wordCount || 0)
newWordCount(existing, updates) ==
    IF Has(updates, "content") /\ Truthy(updates.content)
    THEN countWords(updates.content)
    ELSE existing.wordCount

\* { ...existing, ...updates, wordCount, updatedAt }
updatedChapter(existing, updates) ==
    [Spread(existing, updates) EXCEPT !.wordCount = newWordCount(existing, updates)]

RECURSIVE SumWordsInverted(_, _, _)
\* SumWords with the test of the edited chapter the wrong way round.
SumWordsInverted(allChapters, id, wordCount) ==
    IF allChapters = <<>> THEN 0
    ELSE (IF Head(allChapters).id # id THEN wordCount ELSE Head(allChapters).wordCount)
         + SumWordsInverted(Tail(allChapters), id, wordCount)

RECURSIVE SumWords(_, _, _)
\* allChapters.reduce((sum, ch) => sum + (ch.id === id ? wordCount : ch.wordCount || 0), 0)
SumWords(allChapters, id, wordCount) ==
    IF allChapters = <<>> THEN 0
    ELSE (IF Head(allChapters).id = id THEN wordCount ELSE Head(allChapters).wordCount)
         + SumWords(Tail(allChapters), id, wordCount)

\* recomputedBook that leaves a completed book completed.
recomputedBookKeepingCompleted(book, totalWords) ==
    LET progress == calcProgress(totalWords, book.targetWordCount)
    IN  [book EXCEPT !.currentWordCount = totalWords,
                     !.progress = progress,
                     !.status = IF progress = 100 \/ book.status = "completed"
                                THEN "completed" ELSE "writing"]

\* { ...book, currentWordCount: totalWords, progress, status, updatedAt }
recomputedBook(book, totalWords) ==
    LET progress == calcProgress(totalWords, book.targetWordCount)
    IN  [book EXCEPT !.currentWordCount = totalWords,
                     !.progress = progress,
                     !.status = IF progress = 100 THEN "completed" ELSE "writing"]

\* The chapter map after updateChapter(id, updates): this.chapters.set(id, updated).
updateChapterChapters(chs, id, updates) ==
    IF id \notin DOMAIN chs THEN chs
    ELSE [chs EXCEPT ![id] = updatedChapter(chs[id], updates)]

\* updateChapter(id, updates) suspends twice when updates carry content, and
\* what it holds across an await is a task.  First stretch, up to
\* "await this.getChaptersByBookId(...)": the chapter is stored and the
\* siblings are read in the same stretch, for the callee has no await of its
\* own and runs when it is called.
taskBegun(chs, id, updates) ==
    [pc          |-> "awaitChapters",
     id          |-> id,
     bookId      |-> chs[id].bookId,
     wordCount   |-> newWordCount(chs[id], updates),
     allChapters |-> getChaptersByBookId(updateChapterChapters(chs, id, updates),
                                         chs[id].bookId),
     totalWords  |-> 0,
     book        |-> <<>>]

\* Second stretch, up to "await this.getBook(...)": the sum, and the book read.
taskSummed(bks, task) ==
    [task EXCEPT !.pc = "awaitBook",
                 !.totalWords = SumWords(task.allChapters, task.id, task.wordCount),
                 !.book = getBook(bks, task.bookId)]

\* Third stretch: if (book) this.books.set(existing.bookId, updatedBook).
booksWritten(bks, task) ==
    IF task.book = <<>> THEN bks
    ELSE (task.bookId :> recomputedBook(task.book[1], task.totalWords)) @@ bks

\* updateChapterBooks that recomputes the book whatever the updates carry.
updateChapterBooksAlways(bks, chs, id, updates) ==
    IF id \notin DOMAIN chs THEN bks
    ELSE booksWritten(bks, taskSummed(bks, taskBegun(chs, id, updates)))

\* The book map after updateChapter(id, updates) ran to its end with nothing
\* else in between.
updateChapterBooks(bks, chs, id, updates) ==
    IF id \notin DOMAIN chs \/ ~Has(updates, "content") THEN bks
    ELSE booksWritten(bks, taskSummed(bks, taskBegun(chs, id, updates)))

\* ---------------------------------------------------------------- outlines
\* Array.from(this.outlines.values()).find(...): the first one inserted.
getOutlineByBookId(ols, bookId) ==
    LET mine == {i \in DOMAIN ols : ols[i].bookId = bookId}
    IN  IF mine = {} THEN <<>>
        ELSE <<ols[CHOOSE i \in mine : \A j \in mine : i <= j]>>

\* The chapter plan of an outline and its totals.  The plan is the sequence
\* of its entries' estimatedWordCount.  Requests that say nothing of the plan
\* leave these fields out of the record.
PlanKeys == {"chapters", "totalChapters", "totalEstimatedWords"}

planOf(rec) == [k \in DOMAIN rec \cap PlanKeys |-> rec[k]]

\* updates.x || existing.x: an array is truthy even when empty, a number
\* unless it is 0.
orExisting(updates, existing, key) ==
    IF Has(updates, key) /\ (key = "chapters" \/ updates[key] # 0)
    THEN updates[key] ELSE existing[key]

createOutline(ols, id, insertOutline) ==
    ols @@ (id :> ([
        id         |-> id,
        bookId     |-> insertOutline.bookId,
        isApproved |-> FALSE,
        approvedAt |-> "null"] @@ planOf(insertOutline)))

\* updateOutline building the record the way createOutline does, unapproved.
updateOutlineResets(ols, id, updates) ==
    IF id \notin DOMAIN ols THEN ols
    ELSE [ols EXCEPT ![id] = [
        id         |-> ols[id].id,
        bookId     |-> ols[id].bookId,
        isApproved |-> FALSE,
        approvedAt |-> "null"]]

\* Every field is named one by one; the approval fields come from existing.
updateOutline(ols, id, updates) ==
    IF id \notin DOMAIN ols THEN ols
    ELSE [ols EXCEPT ![id] = [
        id         |-> ols[id].id,
        bookId     |-> ols[id].bookId,
        isApproved |-> ols[id].isApproved,
        approvedAt |-> ols[id].approvedAt]
        @@ [k \in DOMAIN ols[id] \cap PlanKeys |-> orExisting(updates, ols[id], k)]]

\* The outline map after approveOutline(id).
approveOutline(ols, id) ==
    IF id \notin DOMAIN ols THEN ols
    ELSE [ols EXCEPT ![id] = [Spread(ols[id], NoFields) EXCEPT
                                 !.isApproved = TRUE, !.approvedAt = "now"]]

\* approveOutline handing updateBook the outline's id for the book's.
approveOutlineBooksById(bks, ols, id) ==
    IF id \notin DOMAIN ols THEN bks
    ELSE updateBook(bks, id, [status |-> "approved"])

\* The book map after approveOutline(id): updateBook(existing.bookId, {status}).
approveOutlineBooks(bks, ols, id) ==
    IF id \notin DOMAIN ols THEN bks
    ELSE updateBook(bks, ols[id].bookId, [status |-> "approved"])

\* POST /api/books/:bookId/outline: createOutline of the body with the
\* bookId of the path, then updateBook.
postOutlineOutlines(ols, id, bookId, body) ==
    createOutline(ols, id, [bookId |-> bookId] @@ body)

postOutlineBooks(bks, bookId) == updateBook(bks, bookId, [status |-> "outline"])

\* POST /api/generate-outline: 404 without the book, 500 when the generation
\* fails, else createOutline and nothing more.
generateOutlineCreates(bks, bookId, generated) ==
    getBook(bks, bookId) # <<>> /\ generated

\* outline is what OpenRouterService.generateOutline returns.
generateOutlineOutlines(bks, ols, id, bookId, generated, outline) ==
    IF generateOutlineCreates(bks, bookId, generated)
    THEN createOutline(ols, id, [bookId |-> bookId] @@ planOf(outline))
    ELSE ols

generateOutlineBooks(bks, bookId, generated) == bks

\* ------------------------------------------------------------------ delete
\* deleteBook(id): the three maps after it, and what it returns.
deleteBookBooks(bks, id) == Remove(bks, {id})

deleteBookOutlines(ols, id) ==
    Remove(ols, {o \in DOMAIN ols : ols[o].bookId = id})

\* deleteBook without the second forEach.
deleteBookChaptersKept(chs, id) == chs

deleteBookChapters(chs, id) ==
    Remove(chs, {c \in DOMAIN chs : chs[c].bookId = id})

\* ------------------------------------------------------------------ export
Formats      == {"docx", "pdf", "txt", "epub"}
FormatTokens == Formats \cup {"mobi"}

\* exportBook without the test of book.status.
exportBookAnyStatus(bks, chs, bookId, format) ==
    LET book == getBook(bks, bookId)
    IN  IF book = <<>> THEN "Book not found"
        ELSE IF Len(getChaptersByBookId(chs, bookId)) = 0
             THEN "No chapters found for book"
        ELSE IF format \in Formats THEN "artifact"
        ELSE "Unsupported export format"

\* exportBook whose switch falls back on the text renderer.
exportBookDefaultsToText(bks, chs, bookId, format) ==
    LET book == getBook(bks, bookId)
    IN  IF book = <<>> THEN "Book not found"
        ELSE IF book[1].status # "completed"
             THEN "Book must be completed before export"
        ELSE IF Len(getChaptersByBookId(chs, bookId)) = 0
             THEN "No chapters found for book"
        ELSE "artifact"

\* BookExportService.exportBook up to the renderer: the error it throws, or
\* "artifact" when a renderer is entered.
exportBook(bks, chs, bookId, format) ==
    LET book == getBook(bks, bookId)
    IN  IF book = <<>> THEN "Book not found"
        ELSE IF book[1].status # "completed"
             THEN "Book must be completed before export"
        ELSE IF Len(getChaptersByBookId(chs, bookId)) = 0
             THEN "No chapters found for book"
        ELSE IF format \in Formats THEN "artifact"
        ELSE "Unsupported export format"

\* chapters.sort((a, b) => a.chapterNumber - b.chapterNumber) with the
\* comparison the other way round.
RECURSIVE insertByNumberDescending(_, _)
insertByNumberDescending(sorted, chapter) ==
    IF sorted = <<>> THEN <<chapter>>
    ELSE IF Head(sorted).chapterNumber >= chapter.chapterNumber
    THEN <<Head(sorted)>> \o insertByNumberDescending(Tail(sorted), chapter)
    ELSE <<chapter>> \o sorted

\* chapters.sort((a, b) => a.chapterNumber - b.chapterNumber), a stable sort:
\* each chapter goes behind those of its number or a smaller one.
RECURSIVE insertByNumber(_, _)
insertByNumber(sorted, chapter) ==
    IF sorted = <<>> THEN <<chapter>>
    ELSE IF Head(sorted).chapterNumber <= chapter.chapterNumber
    THEN <<Head(sorted)>> \o insertByNumber(Tail(sorted), chapter)
    ELSE <<chapter>> \o sorted

RECURSIVE sortedChapters(_)
sortedChapters(chs) ==
    IF chs = <<>> THEN <<>>
    ELSE insertByNumber(sortedChapters(SubSeq(chs, 1, Len(chs) - 1)), chs[Len(chs)])

\* The lines of the table of contents: "Chapter N: Title" per chapter.  The
\* chapter's id stands for its title.
tocLines(chs) ==
    [i \in 1..Len(chs) |->
        [kind |-> "toc", chapterNumber |-> chs[i].chapterNumber, id |-> chs[i].id]]

\* Per chapter the heading "Chapter N: Title" and then chapter.content || "".
RECURSIVE chapterLines(_)
chapterLines(chs) ==
    IF chs = <<>> THEN <<>>
    ELSE <<[kind |-> "heading", chapterNumber |-> Head(chs).chapterNumber,
            id |-> Head(chs).id],
           [kind |-> "body", chapterNumber |-> Head(chs).chapterNumber,
            id |-> Head(chs).id,
            content |-> IF Truthy(Head(chs).content) THEN Head(chs).content ELSE <<>>]>>
         \o chapterLines(Tail(chs))

\* BookExportService.exportToText: the table of contents when asked for and
\* the chapters, in the order they are handed over.  The title and metadata
\* lines that come first are left out.
exportToText(chs, options) ==
    (IF options.includeTableOfContents THEN tocLines(chs) ELSE <<>>)
    \o chapterLines(chs)

ExportOptions == [includeTableOfContents : BOOLEAN]

\* The text exportBook(bookId, {format: "txt", ...}) returns; <<>> when it
\* throws.
exportBookText(bks, chs, bookId, options) ==
    IF exportBook(bks, chs, bookId, "txt") # "artifact" THEN <<>>
    ELSE exportToText(sortedChapters(getChaptersByBookId(chs, bookId)), options)

\* ---------------------------------------------------------- request inputs
EmptyMap == [k \in {} |-> 0]

Optional(key, values) == {NoFields} \cup {(key :> v) : v \in values}

\* PUT /api/books/:id passes its body to updateBook.
BookUpdates ==
    Optional("status", Statuses) \cup Optional("targetWordCount", Targets)

\* PUT /api/chapters/:id passes its body to updateChapter.
ChapterUpdates ==
    Optional("content", Texts \cup {Null}) \cup Optional("chapterNumber", ChapterNumbers)

\* The bodies that carry content; updateChapter suspends on these alone.
ContentUpdates == {u \in ChapterUpdates : Has(u, "content")}

Idle == [pc |-> "idle"]

\* No generation request has been made yet.
NoRequest ==
    [pc |-> "idle", kind |-> "none", bookId |-> 0, models |-> <<>>,
     statuses |-> <<>>, response |-> <<>>, error |-> "none"]

\* ---------------------------------------------------------------- requests
Init ==
    /\ books = EmptyMap
    /\ outlines = EmptyMap
    /\ chapters = EmptyMap
    /\ nextId = [book |-> 1, outline |-> 1, chapter |-> 1]
    /\ tasks = [t \in 1..MaxTasks |-> Idle]
    /\ settings = <<>>
    /\ bookIdeas = 0
    /\ gen = NoRequest

\* POST /api/books with a targetWordCount among targets.
PostBookOf(targets) ==
    /\ Room
    /\ \E insertBook \in {[targetWordCount |-> t] : t \in targets} :
          books' = createBook(books, nextId.book, insertBook)
    /\ nextId' = [nextId EXCEPT !.book = @ + 1]
    /\ UNCHANGED <<outlines, chapters, tasks, generation>>

\* POST /api/books
PostBook == PostBookOf(Targets)

\* PUT /api/books/:id with a body among bodies.
PutBookOf(bodies) ==
    \E id \in IssuedBooks, updates \in bodies :
        /\ books' = updateBook(books, id, updates)
        /\ UNCHANGED <<outlines, chapters, nextId, tasks, generation>>

\* PUT /api/books/:id
PutBook == PutBookOf(BookUpdates)

\* DELETE /api/books/:id
DeleteBook ==
    \E id \in IssuedBooks :
        /\ books' = deleteBookBooks(books, id)
        /\ outlines' = deleteBookOutlines(outlines, id)
        /\ chapters' = deleteBookChapters(chapters, id)
        /\ UNCHANGED <<nextId, tasks, generation>>

\* POST /api/books/:bookId/outline for a bookId among bookIds and a body
\* among bodies; the route does not look the book up before it stores the
\* outline.
PostOutlineOf(bookIds, bodies) ==
    /\ Room
    /\ \E bookId \in bookIds, body \in bodies :
        /\ outlines' = postOutlineOutlines(outlines, nextId.outline, bookId, body)
        /\ books' = postOutlineBooks(books, bookId)
    /\ nextId' = [nextId EXCEPT !.outline = @ + 1]
    /\ UNCHANGED <<chapters, tasks, generation>>

PostOutline(bookIds) == PostOutlineOf(bookIds, {NoFields})

\* POST /api/generate-outline; the generation service answers with an outline
\* among generatedOutlines, or fails.
GenerateOutlineOf(generatedOutlines) ==
    \E bookId \in IssuedBooks, generated \in BOOLEAN, outline \in generatedOutlines :
        /\ generateOutlineCreates(books, bookId, generated) => Room
        /\ outlines' = generateOutlineOutlines(books, outlines, nextId.outline,
                                               bookId, generated, outline)
        /\ books' = generateOutlineBooks(books, bookId, generated)
        /\ nextId' = IF generateOutlineCreates(books, bookId, generated)
                     THEN [nextId EXCEPT !.outline = @ + 1] ELSE nextId
        /\ UNCHANGED <<chapters, tasks, generation>>

\* POST /api/generate-outline
GenerateOutline == GenerateOutlineOf({NoFields})

\* PUT /api/outlines/:id with a body among bodies.
PutOutlineOf(bodies) ==
    \E id \in IssuedOutlines, updates \in bodies :
        /\ outlines' = updateOutline(outlines, id, updates)
        /\ UNCHANGED <<books, chapters, nextId, tasks, generation>>

\* PUT /api/outlines/:id
PutOutline == PutOutlineOf({NoFields})

\* POST /api/outlines/:id/approve
ApproveOutline ==
    \E id \in IssuedOutlines :
        /\ outlines' = approveOutline(outlines, id)
        /\ books' = approveOutlineBooks(books, outlines, id)
        /\ UNCHANGED <<chapters, nextId, tasks, generation>>

\* POST /api/books/:bookId/chapters for a bookId among bookIds, a
\* chapterNumber among numbers and a body with or without content; outlineId
\* 0 names no outline.
PostChapterOf(bookIds, contents, numbers) ==
    /\ Room
    /\ \E bookId \in bookIds, outlineId \in IssuedOutlines \cup {0},
          chapterNumber \in numbers, content \in contents :
        chapters' = createChapter(chapters, nextId.chapter,
                        content @@ [bookId |-> bookId, outlineId |-> outlineId,
                                    chapterNumber |-> chapterNumber])
    /\ nextId' = [nextId EXCEPT !.chapter = @ + 1]
    /\ UNCHANGED <<books, outlines, tasks, generation>>

PostChapter(bookIds, contents) == PostChapterOf(bookIds, contents, ChapterNumbers)

\* PUT /api/chapters/:id with a body among bodies, run to its end with no
\* other request in between.
PutChapterOf(bodies) ==
    \E id \in IssuedChapters, updates \in bodies :
        /\ chapters' = updateChapterChapters(chapters, id, updates)
        /\ books' = updateChapterBooks(books, chapters, id, updates)
        /\ UNCHANGED <<outlines, nextId, tasks, generation>>

\* PUT /api/chapters/:id
PutChapter == PutChapterOf(ChapterUpdates)

Next ==
    \/ PostBook
    \/ PutBook
    \/ DeleteBook
    \/ PostOutline(IssuedBooks)
    \/ GenerateOutline
    \/ PutOutline
    \/ ApproveOutline
    \/ PostChapter(IssuedBooks, Optional("content", Texts))
    \/ PutChapter

\* Requests run one at a time, each to its end.
Spec == Init /\ [][Next]_vars

\* The same without PUT /api/books/:id, whose body may name any status: the
\* requests that move a book through its lifecycle by the named operations.
NextLifecycle ==
    \/ PostBook
    \/ DeleteBook
    \/ PostOutline(IssuedBooks)
    \/ GenerateOutline
    \/ PutOutline
    \/ ApproveOutline
    \/ PostChapter(IssuedBooks, Optional("content", Texts))
    \/ PutChapter

SpecLifecycle == Init /\ [][NextLifecycle]_vars

\* ------------------------------------------- requests that interleave
\* The chapters that an updateChapter in flight is writing.
InFlight == {tasks[t].id : t \in {u \in 1..MaxTasks : tasks[u] # Idle}}

\* PUT /api/chapters/:id with content for an id among ids, up to its first
\* await, held in the first free slot.  For a missing id updateChapter returns
\* at once.
BeginUpdateChapter(ids) ==
    \E t \in 1..MaxTasks, id \in ids, updates \in ContentUpdates :
        /\ tasks[t] = Idle
        /\ \A u \in 1..(t - 1) : tasks[u] # Idle
        /\ chapters' = updateChapterChapters(chapters, id, updates)
        /\ tasks' = IF id \in DOMAIN chapters
                    THEN [tasks EXCEPT ![t] = taskBegun(chapters, id, updates)]
                    ELSE tasks
        /\ UNCHANGED <<books, outlines, nextId, generation>>

\* The stretch between the two awaits.
SumChapters ==
    \E t \in 1..MaxTasks :
        /\ tasks[t].pc = "awaitChapters"
        /\ tasks' = [tasks EXCEPT ![t] = taskSummed(books, tasks[t])]
        /\ UNCHANGED <<books, outlines, chapters, nextId, generation>>

\* The stretch after the second await, to the return.
WriteBook ==
    \E t \in 1..MaxTasks :
        /\ tasks[t].pc = "awaitBook"
        /\ books' = booksWritten(books, tasks[t])
        /\ tasks' = [tasks EXCEPT ![t] = Idle]
        /\ UNCHANGED <<outlines, chapters, nextId, generation>>

\* Chapter writes that interleave at their awaits, each on another chapter
\* than the writes in flight, on books that stay.
NextWriters ==
    \/ PostBook
    \/ PostChapter(DOMAIN books, {NoFields})
    \/ BeginUpdateChapter(IssuedChapters \ InFlight)
    \/ SumChapters
    \/ WriteBook

SpecWriters == Init /\ [][NextWriters]_vars

\* Chapter writes in flight while books with their outlines and chapters are
\* created and deleted; deleteBook has no await and runs in one stretch.
NextAsync ==
    \/ PostBook
    \/ PostOutline(DOMAIN books)
    \/ PostChapter(DOMAIN books, {NoFields})
    \/ DeleteBook
    \/ BeginUpdateChapter(IssuedChapters)
    \/ SumChapters
    \/ WriteBook

SpecAsync == Init /\ [][NextAsync]_vars

\* ------------------------------------------------------------ manuscripts
\* The requests that write a manuscript: books, their chapters in any order
\* of chapterNumber, and the chapters' contents and numbers.
NextExport ==
    \/ PostBook
    \/ PostChapter(DOMAIN books, Optional("content", Texts))
    \/ PutChapter
    \/ PutBook

SpecExport == Init /\ [][NextExport]_vars

\* ------------------------------------------------------ generated chapters
\* String.prototype.trim(): the text without its leading and trailing
\* whitespace.
RECURSIVE TrimStart(_)
TrimStart(text) ==
    IF text # <<>> /\ IsSpace(Head(text)) THEN TrimStart(Tail(text)) ELSE text

RECURSIVE TrimEnd(_)
TrimEnd(text) ==
    IF text # <<>> /\ IsSpace(text[Len(text)])
    THEN TrimEnd(SubSeq(text, 1, Len(text) - 1)) ELSE text

Trim(text) == TrimEnd(TrimStart(text))

\* What the generation service writes for a chapter: a word, two words with
\* whitespace around them, or whitespace alone.
Responses == {<<"a">>, <<" ", "a", " ", "a">>, <<" ">>}

\* chapters.find(ch => ch.chapterNumber === validatedData.chapterNumber) over
\* getChaptersByBookId: the first of that number, or <<>> for undefined.
findChapter(chs, bookId, chapterNumber) ==
    LET all  == getChaptersByBookId(chs, bookId)
        hits == {i \in 1..Len(all) : all[i].chapterNumber = chapterNumber}
    IN  IF hits = {} THEN <<>>
        ELSE <<all[CHOOSE i \in hits : \A j \in hits : i <= j]>>

generateChapterStoresAnyway(bks, ols, bookId, generated) ==
    /\ getBook(bks, bookId) # <<>>
    /\ getOutlineByBookId(ols, bookId) # <<>>

\* POST /api/generate-chapter gets as far as storing: the book and its
\* outline are there and the generation has answered.
generateChapterStores(bks, ols, bookId, generated) ==
    /\ getBook(bks, bookId) # <<>>
    /\ getOutlineByBookId(ols, bookId) # <<>>
    /\ generated

\* ... and creates a chapter, there being none of that number.
generateChapterCreates(bks, ols, chs, bookId, chapterNumber, generated) ==
    /\ generateChapterStores(bks, ols, bookId, generated)
    /\ findChapter(chs, bookId, chapterNumber) = <<>>

\* The chapter map after POST /api/generate-chapter; id is the next chapter id.
generateChapterChapters(bks, ols, chs, id, bookId, chapterNumber, generated, response) ==
    IF ~generateChapterStores(bks, ols, bookId, generated) THEN chs
    ELSE IF generateChapterCreates(bks, ols, chs, bookId, chapterNumber, generated)
    THEN createChapter(chs, id,
             [bookId        |-> bookId,
              outlineId     |-> getOutlineByBookId(ols, bookId)[1].id,
              chapterNumber |-> chapterNumber,
              content       |-> Trim(response)])
    ELSE updateChapterChapters(chs, findChapter(chs, bookId, chapterNumber)[1].id,
                               [content |-> Trim(response)])

\* The book map after POST /api/generate-chapter.
generateChapterBooks(bks, ols, chs, bookId, chapterNumber, generated, response) ==
    IF /\ generateChapterStores(bks, ols, bookId, generated)
       /\ ~generateChapterCreates(bks, ols, chs, bookId, chapterNumber, generated)
    THEN updateChapterBooks(bks, chs, findChapter(chs, bookId, chapterNumber)[1].id,
                            [content |-> Trim(response)])
    ELSE bks

\* POST /api/generate-chapter, from the answer of the generation service (or
\* its failure) to the response, with no other request in between.
GenerateChapter ==
    \E bookId \in IssuedBooks, chapterNumber \in ChapterNumbers,
       generated \in BOOLEAN, response \in Responses :
        LET creates == generateChapterCreates(books, outlines, chapters,
                                              bookId, chapterNumber, generated)
        IN  /\ creates => Room
            /\ chapters' = generateChapterChapters(books, outlines, chapters,
                                nextId.chapter, bookId, chapterNumber, generated, response)
            /\ books' = generateChapterBooks(books, outlines, chapters,
                                bookId, chapterNumber, generated, response)
            /\ nextId' = IF creates THEN [nextId EXCEPT !.chapter = @ + 1] ELSE nextId
            /\ UNCHANGED <<outlines, tasks, generation>>

\* The requests that create and write chapters, generation included.
NextChapters ==
    \/ PostBook
    \/ PostOutline(DOMAIN books)
    \/ PostChapter(DOMAIN books, Optional("content", Texts))
    \/ GenerateChapter
    \/ PutChapter

SpecChapters == Init /\ [][NextChapters]_vars

\* ------------------------------------------------------------ chapter plans
RECURSIVE SumSeq(_)
SumSeq(numbers) ==
    IF numbers = <<>> THEN 0 ELSE Head(numbers) + SumSeq(Tail(numbers))

\* OpenRouterService.generateOutline overwrites the totals of the outline it
\* parsed with those of its chapters.
recomputeTotals(outline) ==
    [chapters            |-> outline.chapters,
     totalChapters       |-> Len(outline.chapters),
     totalEstimatedWords |-> SumSeq(outline.chapters)]

\* The plans and totals an outline body or a generated outline carries.
PlanLists == {<<1>>, <<1, 2>>}

OutlineBodies ==
    [chapters : PlanLists, totalChapters : {1, 2}, totalEstimatedWords : {1, 3}]

\* PUT /api/outlines/:id passes its body to updateOutline: any of the plan
\* fields, or none.
OutlineUpdates ==
    {[k \in ks |-> r[k]] :
        ks \in SUBSET PlanKeys,
        r \in [chapters : PlanLists, totalChapters : {0, 2}, totalEstimatedWords : {3}]}

\* The requests that store and replace chapter plans.
NextPlans ==
    \/ PostBook
    \/ PostOutlineOf(DOMAIN books, OutlineBodies)
    \/ GenerateOutlineOf({recomputeTotals(r) : r \in OutlineBodies})
    \/ PutOutlineOf(OutlineUpdates)

SpecPlans == Init /\ [][NextPlans]_vars

\* ------------------------------------------------- numbers out of range
\* The integers a body can carry where the insert schema asks for an integer
\* and no more: drizzle-zod puts no lower bound on an integer column.
Numbers == {-1, 0, 1}

\* The requests that store a targetWordCount or a chapterNumber, with any
\* integer in them.  No chapter content is written here.
NextNumbers ==
    \/ PostBookOf(Numbers)
    \/ PutBookOf(Optional("targetWordCount", Numbers))
    \/ PostChapterOf(IssuedBooks, {NoFields}, Numbers)
    \/ PutChapterOf(Optional("chapterNumber", Numbers))

SpecNumbers == Init /\ [][NextNumbers]_vars

\* ------------------------------------------- the text of a service response
\* A response is a sequence of tokens: the brackets of JSON; "x" for a JSON
\* scalar (directly inside an object it is the member "title": "..." and an
\* array directly inside an object is the member "chapters": [...]); "p" for
\* a word of prose; "fence json" and "fence" for the
\* code fences with and without the json tag; " " for white space.
JsonTokens == {"[", "]", "{", "}", "x"}
Tokens     == JsonTokens \cup {"p", "fence json", "fence", " "}

NoValue == [ok |-> FALSE, value |-> <<>>, rest |-> <<>>]

\* JSON.parse, by recursive descent: a value at the head of text and the text
\* left after it.  A value is a scalar, an array or an object with its items.
RECURSIVE parseValue(_)
RECURSIVE parseItems(_, _)
parseValue(text) ==
    IF text = <<>> THEN NoValue
    ELSE IF IsSpace(Head(text)) THEN parseValue(Tail(text))
    ELSE IF Head(text) = "x"
    THEN [ok |-> TRUE, value |-> <<[type |-> "scalar", items |-> <<>>]>>,
          rest |-> Tail(text)]
    ELSE IF Head(text) \in {"[", "{"}
    THEN LET items == parseItems(Tail(text), IF Head(text) = "[" THEN "]" ELSE "}")
         IN  IF items.ok
             THEN [ok |-> TRUE,
                   value |-> <<[type  |-> IF Head(text) = "[" THEN "array" ELSE "object",
                                items |-> items.value]>>,
                   rest |-> items.rest]
             ELSE NoValue
    ELSE NoValue

parseItems(text, close) ==
    IF text = <<>> THEN NoValue
    ELSE IF IsSpace(Head(text)) THEN parseItems(Tail(text), close)
    ELSE IF Head(text) = close
    THEN [ok |-> TRUE, value |-> <<>>, rest |-> Tail(text)]
    ELSE LET item == parseValue(text)
             more == parseItems(item.rest, close)
         IN  IF item.ok /\ more.ok
             THEN [ok |-> TRUE, value |-> item.value \o more.value, rest |-> more.rest]
             ELSE NoValue

\* JSON.parse(text): <<value>>, or <<>> where it throws a SyntaxError.
JSONparse(text) ==
    LET parsed == parseValue(text)
    IN  IF parsed.ok /\ Trim(parsed.rest) = <<>> THEN parsed.value ELSE <<>>

\* text.match(/<open>[\s\S]*<close>/): from the first open bracket to the last
\* close bracket after it, or <<>> for null.
match(text, open, close) ==
    LET opens  == {i \in DOMAIN text : text[i] = open}
        closes == {i \in DOMAIN text : text[i] = close}
        first  == CHOOSE i \in opens : \A j \in opens : i <= j
        last   == CHOOSE i \in closes : \A j \in closes : j <= i
    IN  IF opens # {} /\ closes # {} /\ first < last
        THEN <<SubSeq(text, first, last)>> ELSE <<>>

\* extractJsonFromResponse up to JSON.parse: the fences come off, then the
\* array match is taken if there is one, the object match otherwise.
unfenced(response) ==
    LET trimmed == Trim(response)
        opened  == IF trimmed # <<>> /\ Head(trimmed) = "fence json"
                   THEN TrimStart(Tail(trimmed)) ELSE trimmed
        closed  == IF opened # <<>> /\ opened[Len(opened)] = "fence"
                   THEN SubSeq(opened, 1, Len(opened) - 1) ELSE opened
    IN  IF closed # <<>> /\ Head(closed) = "fence"
        THEN TrimStart(Tail(closed)) ELSE closed

cleanResponse(text) ==
    LET arrayMatch  == match(text, "[", "]")
        objectMatch == match(text, "{", "}")
    IN  IF arrayMatch # <<>> THEN arrayMatch[1]
        ELSE IF objectMatch # <<>> THEN objectMatch[1]
        ELSE text

\* <<value>>, or <<>> where it throws "Failed to parse AI response: ...".
extractJsonFromResponse(response) == JSONparse(cleanResponse(unfenced(response)))

\* outline.title and outline.chapters of a parsed value.
titleOf(value) ==
    value.type = "object" /\ \E i \in DOMAIN value.items : value.items[i].type = "scalar"

chaptersOf(value) ==
    LET arrays == {i \in DOMAIN value.items : value.items[i].type = "array"}
    IN  IF value.type = "object" /\ arrays # {}
        THEN <<value.items[CHOOSE i \in arrays : \A j \in arrays : i <= j].items>>
        ELSE <<>>

\* ch.estimatedWordCount || 0: an object chapter carries one word here.
estimatedWordCount(ch) == IF ch.type = "object" THEN 1 ELSE 0

\* generateOutline after makeRequest: <<outline>> with the totals of its
\* chapters, or <<>> where it throws "Failed to parse AI response. Please
\* try again.".
generateOutline(response) ==
    LET outline == extractJsonFromResponse(response)
    IN  IF outline = <<>> THEN <<>>
        ELSE IF ~titleOf(outline[1]) \/ chaptersOf(outline[1]) = <<>> THEN <<>>
        ELSE LET chs == chaptersOf(outline[1])[1]
             IN  <<recomputeTotals(
                     [chapters |-> [i \in DOMAIN chs |-> estimatedWordCount(chs[i])]])>>

\* generateBookIdeas after makeRequest: <<ideas>>, or <<>> where it throws.
generateBookIdeas(response) ==
    LET ideas == extractJsonFromResponse(response)
    IN  IF ideas # <<>> /\ ideas[1].type = "array" THEN <<ideas[1].items>> ELSE <<>>

\* ---------------------------------------------------- settings and requests
DefaultModel == "openai/gpt-4o-mini"

\* What a settings body carries for the key and the model; "null" is null.
ApiKeys == {"null", "", "sk-or-v1"}
Models  == {"null", DefaultModel, "other/model"}

Falsy(text) == text \in {"null", ""}

DEMO_USER_ID == "demo-user"

\* getSettings(userId): the first record of that user, <<>> for undefined.
getSettings(stg, userId) ==
    LET mine == {i \in DOMAIN stg : stg[i].userId = userId}
    IN  IF mine = {} THEN <<>>
        ELSE <<stg[CHOOSE i \in mine : \A j \in mine : i <= j]>>

\* createSettings(insertSettings): one more record, each field || null.
createSettings(stg, insertSettings) ==
    Append(stg,
        [userId           |-> insertSettings.userId,
         openrouterApiKey |-> IF Falsy(insertSettings.openrouterApiKey)
                              THEN "null" ELSE insertSettings.openrouterApiKey,
         selectedModel    |-> IF Falsy(insertSettings.selectedModel)
                              THEN "null" ELSE insertSettings.selectedModel])

\* updateSettings("demo-user", updates): nothing without a record of the demo
\* user; else the updates are spread over it, userId included.
updateSettings(stg, updates) ==
    LET mine == {i \in DOMAIN stg : stg[i].userId = DEMO_USER_ID}
    IN  IF mine = {} THEN stg
        ELSE [stg EXCEPT ![CHOOSE i \in mine : \A j \in mine : i <= j] =
                                Spread(@, updates)]

\* PUT /api/settings passes its validated body to updateSettings; the insert
\* schema lets the body name a user.
KeyAndModelBodies ==
    Optional("openrouterApiKey", ApiKeys) \cup Optional("selectedModel", Models)

SettingsBodies == KeyAndModelBodies \cup {[userId |-> "other-user"]}

\* getApiKey: <<key>>, or <<>> where it throws.
getApiKeyUnchecked(stg) ==
    IF getSettings(stg, DEMO_USER_ID) = <<>> THEN <<"null">>
    ELSE <<getSettings(stg, DEMO_USER_ID)[1].openrouterApiKey>>

getApiKey(stg) ==
    LET found == getSettings(stg, DEMO_USER_ID)
    IN  IF found = <<>> \/ Falsy(found[1].openrouterApiKey)
        THEN <<>> ELSE <<found[1].openrouterApiKey>>

getSelectedModel(stg) ==
    LET found == getSettings(stg, DEMO_USER_ID)
    IN  IF found = <<>> \/ Falsy(found[1].selectedModel)
        THEN DefaultModel ELSE found[1].selectedModel

NoKeyError     == "OpenRouter API key not configured. Please set it in Settings."
AuthError      == "OpenRouter authentication failed."
ApiError       == "OpenRouter API error"
InvalidError   == "Invalid response from OpenRouter API"
ParseError     == "Failed to parse AI response. Please try again."
FetchError     == "fetch failed"

\* What the backend does with one call: it answers 200 with a completion or
\* without one, answers 401 or 500, or the connection fails.
Answers == {"200", "200 without choices", "401", "500", "failed"}

\* makeRequest from its call to its fetch: the request g ends on the missing
\* key, or one more call is out with the model read now.
makeRequest(stg, g) ==
    IF getApiKey(stg) = <<>>
    THEN [g EXCEPT !.pc = "done", !.error = NoKeyError]
    ELSE [g EXCEPT !.pc = "fetching", !.models = Append(@, getSelectedModel(stg))]

fallbackSettings == [selectedModel |-> DefaultModel]

\* A 401 on a model other than the default stores the default model...
retries(g, answer) == answer = "401" /\ g.models[Len(g.models)] # DefaultModel

makeRequestSettingsKept(stg, g, answer) == stg

makeRequestSettings(stg, g, answer) ==
    IF retries(g, answer) THEN updateSettings(stg, fallbackSettings) ELSE stg

\* ... and calls makeRequest again; the other answers end the call.
makeRequestAnswered(stg, g, answer) ==
    LET heard == [g EXCEPT !.statuses = Append(@, answer)]
    IN  IF retries(g, answer)
        THEN makeRequest(makeRequestSettings(stg, g, answer), heard)
        ELSE IF answer = "200" THEN [heard EXCEPT !.pc = "answered"]
        ELSE [heard EXCEPT !.pc = "done",
                           !.error = CASE answer = "401" -> AuthError
                                       [] answer = "500" -> ApiError
                                       [] answer = "failed" -> FetchError
                                       [] OTHER -> InvalidError]

\* The three generation requests.
Kinds == {"ideas", "outline", "chapter"}

\* What the backend writes for each of them: for ideas an array of one idea,
\* an object, prose; for an outline the object with a title and one or two
\* chapters, bare or between fences, and prose; for a chapter a word after
\* white space.
ResponsesOf ==
    [kind \in Kinds |->
        CASE kind = "ideas" ->
                {<<"[", "{", "x", "}", "]">>, <<"{", "x", "}">>, <<"p">>}
          [] kind = "outline" ->
                {<<"{", "x", "[", "{", "x", "}", "]", "}">>,
                 <<"fence json", "{", "x", "[", "x", "x", "]", "}", "fence">>,
                 <<"p">>}
          [] OTHER -> {<<" ", "a">>}]

\* The service method after makeRequest has returned response: the request
\* ends with what it returns, or on the parse error.
generated(g, response) ==
    LET failed == \/ g.kind = "ideas" /\ generateBookIdeas(response) = <<>>
                  \/ g.kind = "outline" /\ generateOutline(response) = <<>>
    IN  [g EXCEPT !.pc = "done", !.response = response,
                  !.error = IF failed THEN ParseError ELSE "none"]

\* The ideas a route may store at once, the calls one request may make, and
\* the settings records created in one run.
MaxIdeas    == 2
MaxCalls    == 3
MaxSettings == 2

\* The record GET /api/settings creates.
defaultSettings ==
    [userId |-> DEMO_USER_ID, openrouterApiKey |-> "null", selectedModel |-> "null"]

\* GET /api/settings creates the default record when the demo user has none.
GetSettings ==
    /\ getSettings(settings, DEMO_USER_ID) = <<>>
    /\ Len(settings) < MaxSettings
    /\ settings' = createSettings(settings, defaultSettings)
    /\ UNCHANGED <<books, outlines, chapters, nextId, tasks, bookIdeas, gen>>

PutSettingsOf(bodies) ==
    \E body \in bodies :
        /\ settings' = updateSettings(settings, body)
        /\ UNCHANGED <<books, outlines, chapters, nextId, tasks, bookIdeas, gen>>

PutSettings == PutSettingsOf(SettingsBodies)

\* A generation route up to its first suspension: POST /api/generate-ideas
\* calls the service at once, POST /api/generate-outline once the book is
\* there, POST /api/generate-chapter once the book and its outline are there.
BeginGeneration ==
    \E kind \in Kinds, bookId \in IssuedBooks \cup {0} :
        /\ gen.pc \in {"idle", "done"}
        /\ kind = "ideas" <=> bookId = 0
        /\ kind # "ideas" => getBook(books, bookId) # <<>>
        /\ kind = "chapter" => getOutlineByBookId(outlines, bookId) # <<>>
        /\ gen' = makeRequest(settings, [NoRequest EXCEPT !.kind = kind, !.bookId = bookId])
        /\ UNCHANGED <<books, outlines, chapters, nextId, tasks, settings, bookIdeas>>

\* The backend answers the call that is out.  Anything but a completion ends
\* the request or sends the second call: the route goes to its catch block,
\* its store being reached with nothing generated.  A completion is parsed
\* and the route stores what the service returned.
BackendAnswers ==
    \E answer \in Answers :
        /\ gen.pc = "fetching"
        /\ answer # "200"
        /\ Len(makeRequestAnswered(settings, gen, answer).models) <= MaxCalls
        /\ gen' = makeRequestAnswered(settings, gen, answer)
        /\ settings' = makeRequestSettings(settings, gen, answer)
        /\ chapters' = IF gen.kind = "chapter"
                       THEN generateChapterChapters(books, outlines, chapters,
                                nextId.chapter, gen.bookId, 1, FALSE, <<>>)
                       ELSE chapters
        /\ books' = IF gen.kind = "chapter"
                    THEN generateChapterBooks(books, outlines, chapters,
                                gen.bookId, 1, FALSE, <<>>)
                    ELSE books
        /\ UNCHANGED <<outlines, nextId, tasks, bookIdeas>>

\* A completion whose text is among responsesOf[kind]; a chapter request is
\* for chapter 1.
BackendCompletesOf(responsesOf) ==
    \E response \in (IF gen.pc = "fetching" THEN responsesOf[gen.kind] ELSE {}),
       chapterNumber \in {1} :
        LET done    == generated(makeRequestAnswered(settings, gen, "200"), response)
            ok      == done.error = "none"
            creates == generateChapterCreates(books, outlines, chapters,
                                              gen.bookId, chapterNumber, TRUE)
        IN  /\ gen.pc = "fetching"
            /\ gen' = done
            /\ IF ~ok
               THEN UNCHANGED <<books, outlines, chapters, nextId, bookIdeas>>
               ELSE CASE gen.kind = "ideas" ->
                        /\ bookIdeas + Len(generateBookIdeas(response)[1]) <= MaxIdeas
                        /\ bookIdeas' = bookIdeas + Len(generateBookIdeas(response)[1])
                        /\ UNCHANGED <<books, outlines, chapters, nextId>>
                      [] gen.kind = "outline" ->
                        /\ Room
                        /\ outlines' = createOutline(outlines, nextId.outline,
                               [bookId |-> gen.bookId] @@ planOf(generateOutline(response)[1]))
                        /\ nextId' = [nextId EXCEPT !.outline = @ + 1]
                        /\ UNCHANGED <<books, chapters, bookIdeas>>
                      [] OTHER ->
                        /\ creates => Room
                        /\ chapters' = generateChapterChapters(books, outlines, chapters,
                               nextId.chapter, gen.bookId, chapterNumber, TRUE, response)
                        /\ books' = generateChapterBooks(books, outlines, chapters,
                               gen.bookId, chapterNumber, TRUE, response)
                        /\ nextId' = IF creates
                                     THEN [nextId EXCEPT !.chapter = @ + 1] ELSE nextId
                        /\ UNCHANGED <<outlines, bookIdeas>>
            /\ UNCHANGED <<tasks, settings>>

BackendCompletes == BackendCompletesOf(ResponsesOf)

\* The generation requests with the settings requests (of the demo user's key
\* and model) running between their suspensions, over the books and outlines
\* the other routes store.
NextGeneration ==
    \/ PostBookOf({3})
    \/ PostOutline(DOMAIN books)
    \/ GetSettings
    \/ PutSettingsOf(KeyAndModelBodies)
    \/ BeginGeneration
    \/ BackendAnswers
    \/ BackendCompletes

SpecGeneration == Init /\ [][NextGeneration]_vars

\* The backend, or the timeout of fetch, answers every call that is out.
FairGeneration ==
    SpecGeneration /\ WF_vars(BackendAnswers \/ BackendCompletes)

\* ------------------------------------------------- responses of every shape
MaxText     == 4    \* tokens in a response of arbitrary shape
MaxChapters == 2    \* chapters in a generated outline
MaxContent  == 4    \* characters in the content of a chapter

RECURSIVE Repeat(_, _)
Repeat(text, n) == IF n = 0 THEN <<>> ELSE text \o Repeat(text, n - 1)

\* {"title": ..., "chapters": [n chapter objects]} and [n idea objects].
outlineText(n) == <<"{", "x", "[">> \o Repeat(<<"{", "x", "}">>, n) \o <<"]", "}">>
ideasText(n)   == <<"[">> \o Repeat(<<"{", "x", "}">>, n) \o <<"]">>

\* The ways a model dresses its JSON: bare, between fences with or without
\* the json tag, after or before prose, between white space.
Dressings == {"bare", "fence json", "fence", "prose before", "prose after", "spaces"}

dressed(dressing, text) ==
    CASE dressing = "fence json"   -> <<"fence json">> \o text \o <<"fence">>
      [] dressing = "fence"        -> <<"fence">> \o text \o <<"fence">>
      [] dressing = "prose before" -> <<"p", " ">> \o text
      [] dressing = "prose after"  -> text \o <<" ", "p">>
      [] dressing = "spaces"       -> <<" ">> \o text \o <<" ">>
      [] OTHER                     -> text

\* Every text of up to MaxText tokens other than white space.
AnyTexts ==
    UNION {[1..n -> Tokens \ {" "}] : n \in 1..MaxText}

\* What the backend may write for any request: the outlines and idea lists
\* of every size in every dressing, and every short text.
AllResponses ==
    [kind \in Kinds |->
        {dressed(d, outlineText(n)) : d \in Dressings, n \in 0..MaxChapters}
            \cup {dressed(d, ideasText(n)) : d \in Dressings, n \in 0..MaxChapters}
            \cup AnyTexts]

\* The idea and outline requests of a user who has stored a key, answered
\* with any text.
NextExtract ==
    \/ PostBookOf({3})
    \/ GetSettings
    \/ PutSettingsOf({[openrouterApiKey |-> "sk-or-v1"]})
    \/ BeginGeneration
    \/ BackendCompletesOf(AllResponses)

SpecExtract == Init /\ [][NextExtract]_vars

\* ------------------------------------------------------- settings requests
\* GET and PUT /api/settings, each run to its end: the awaits of the GET
\* route are on the in-memory store, which answers within the same turn.
NextSettings ==
    \/ GetSettings
    \/ PutSettings

SpecSettings == Init /\ [][NextSettings]_vars

\* -------------------------------------------------------------- paragraphs
\* The characters of a chapter's content: the line break, the blank, and the
\* three characters of the markup the renderers write around a paragraph.
Chars == {LF, " ", "<", "p", ">"}

RECURSIVE TextsUpTo(_)
TextsUpTo(n) ==
    IF n = 0 THEN {<<>>}
    ELSE LET shorter == TextsUpTo(n - 1)
         IN  shorter \cup {Append(t, ch) : t \in shorter, ch \in Chars}

\* The contents a client writes into a chapter.
Contents == TextsUpTo(MaxContent)

\* content.split('\n'): the stretches between the line breaks, empty ones
\* included; a text without line break is one line.
RECURSIVE split(_, _)
split(content, separator) ==
    LET breaks == {i \in DOMAIN content : content[i] = separator}
    IN  IF breaks = {} THEN <<content>>
        ELSE LET first == CHOOSE i \in breaks : \A j \in breaks : i <= j
             IN  <<SubSeq(content, 1, first - 1)>>
                 \o split(SubSeq(content, first + 1, Len(content)), separator)

\* parseContentToParagraphs without its filter.
parseContentToParagraphsUnfiltered(content) ==
    LET lines == split(content, LF)
    IN  [i \in DOMAIN lines |-> Trim(lines[i])]

\* content.split('\n').filter(line => line.trim().length > 0).map(line => line.trim())
parseContentToParagraphs(content) ==
    LET lines == SelectSeq(split(content, LF), LAMBDA line : Len(Trim(line)) > 0)
    IN  [i \in DOMAIN lines |-> Trim(lines[i])]

\* text.replace(/[&<>"']/g, (m) => map[m]); an entity is one token.
escapeHtml(text) ==
    [i \in DOMAIN text |-> CASE text[i] = "<" -> "&lt;"
                             [] text[i] = ">" -> "&gt;"
                             [] OTHER         -> text[i]]

RECURSIVE join(_, _)
\* Array.prototype.join
join(parts, separator) ==
    IF parts = <<>> THEN <<>>
    ELSE IF Len(parts) = 1 THEN parts[1]
    ELSE parts[1] \o <<separator>> \o join(Tail(parts), separator)

\* content.split('\n').filter(...).map(line => `<p>${escapeHtml(line.trim())}</p>`).join('\n')
parseContentToHTML(content) ==
    LET lines == SelectSeq(split(content, LF), LAMBDA line : Len(Trim(line)) > 0)
    IN  join([i \in DOMAIN lines |->
                 <<"<", "p", ">">> \o escapeHtml(Trim(lines[i])) \o <<"<", "/", "p", ">">>],
             LF)

\* chapter.content || ""
contentOrEmpty(chapter) == IF Truthy(chapter.content) THEN chapter.content ELSE <<>>

\* POST /api/books/:bookId/chapters for the first chapter of a manuscript,
\* with any content.
PostFirstChapter ==
    /\ chapters = << >>
    /\ PostChapter(DOMAIN books, Optional("content", Contents))

NextParagraphs ==
    \/ PostBookOf({1})
    \/ PostFirstChapter

SpecParagraphs == Init /\ [][NextParagraphs]_vars


\* ================================================================ properties
ChaptersOf(chs, bookId) == {c \in DOMAIN chs : chs[c].bookId = bookId}
OutlinesOf(ols, bookId) == {o \in DOMAIN ols : ols[o].bookId = bookId}

HasChapter(bookId) == ChaptersOf(chapters, bookId) # {}

RECURSIVE SumOver(_, _)
SumOver(chs, ids) ==
    IF ids = {} THEN 0
    ELSE LET c == CHOOSE x \in ids : TRUE
         IN  chs[c].wordCount + SumOver(chs, ids \ {c})

\* The sum of wordCount over the stored chapters of a book.
StoredWords(chs, bookId) == SumOver(chs, ChaptersOf(chs, bookId))

\* min(100, round(100 * words / target))
ClaimedProgress(words, target) ==
    LET r == (200 * words + target) \div (2 * target)
    IN  IF r > 100 THEN 100 ELSE r

AllIdle == \A t \in 1..MaxTasks : tasks[t] = Idle

\* C1: after an updateChapter call that supplies content, run from any state
\* the requests reach one at a time, the parent book's currentWordCount is the
\* sum of wordCount over the stored chapters of that book.
C1_WordCountIsSum ==
    \A id \in DOMAIN chapters, updates \in ContentUpdates :
        LET chaptersAfter == updateChapterChapters(chapters, id, updates)
            booksAfter    == updateChapterBooks(books, chapters, id, updates)
            bookId        == chapters[id].bookId
        IN  bookId \in DOMAIN booksAfter =>
                booksAfter[bookId].currentWordCount = StoredWords(chaptersAfter, bookId)

\* A book whose two chapters were each given a word, and which counts both.
C1_Witness ==
    \E b \in DOMAIN books :
        /\ Cardinality({c \in ChaptersOf(chapters, b) : chapters[c].wordCount = 1}) >= 2
        /\ books[b].currentWordCount = StoredWords(chapters, b)
        /\ books[b].currentWordCount >= 2

\* C2: in every reachable state a book with at least one chapter has
\* progress = min(100, round(100 * currentWordCount / targetWordCount)).
C2_ProgressMatchesCounts ==
    \A b \in DOMAIN books :
        HasChapter(b) =>
            books[b].progress =
                ClaimedProgress(books[b].currentWordCount, books[b].targetWordCount)

\* C3: in every reachable state a book with at least one chapter whose progress
\* is 100 has status completed, approveOutline and outline creation included.
C3_FullProgressIsCompleted ==
    \A b \in DOMAIN books :
        HasChapter(b) /\ books[b].progress = 100 => books[b].status = "completed"

\* C4: an outline that is approved stays approved in every step that keeps it.
C4_ApprovalMonotonic ==
    [][\A o \in DOMAIN outlines :
          outlines[o].isApproved /\ o \in DOMAIN outlines' => outlines'[o].isApproved]_vars

\* An approved outline whose book has since moved on to writing.
C4_Witness ==
    \E o \in DOMAIN outlines :
        /\ outlines[o].isApproved
        /\ outlines[o].bookId \in DOMAIN books
        /\ books[outlines[o].bookId].status = "writing"

\* C5: exportBook enters a renderer only for an existing, completed book with a
\* chapter; a book of any other status gets the must-be-completed error and a
\* completed book without chapters the no-chapters error.
C5_ExportPrecondition ==
    \A bookId \in IssuedBooks, format \in FormatTokens :
        LET result == exportBook(books, chapters, bookId, format)
        IN  /\ result = "artifact" =>
                  /\ bookId \in DOMAIN books
                  /\ books[bookId].status = "completed"
                  /\ HasChapter(bookId)
            /\ bookId \in DOMAIN books /\ books[bookId].status # "completed" =>
                  result = "Book must be completed before export"
            /\ (/\ bookId \in DOMAIN books
                /\ books[bookId].status = "completed"
                /\ ~HasChapter(bookId)) =>
                  result = "No chapters found for book"

\* A completed book with a chapter, which exportBook hands to the text renderer.
C5_Witness ==
    \E b \in DOMAIN books :
        /\ HasChapter(b)
        /\ books[b].status = "completed"
        /\ exportBook(books, chapters, b, "txt") = "artifact"

\* C6: after deleteBook(id) on an existing book the book, its outlines and its
\* chapters are gone, by id and by bookId, and the outlines and chapters of
\* other books are the records they were.
C6_DeleteCascades ==
    \A id \in DOMAIN books :
        LET booksAfter    == deleteBookBooks(books, id)
            outlinesAfter == deleteBookOutlines(outlines, id)
            chaptersAfter == deleteBookChapters(chapters, id)
        IN  /\ getBook(booksAfter, id) = <<>>
            /\ getOutlineByBookId(outlinesAfter, id) = <<>>
            /\ getChaptersByBookId(chaptersAfter, id) = <<>>
            /\ \A o \in DOMAIN outlines :
                  IF outlines[o].bookId = id
                  THEN o \notin DOMAIN outlinesAfter
                  ELSE o \in DOMAIN outlinesAfter /\ outlinesAfter[o] = outlines[o]
            /\ \A c \in DOMAIN chapters :
                  IF chapters[c].bookId = id
                  THEN c \notin DOMAIN chaptersAfter
                  ELSE c \in DOMAIN chaptersAfter /\ chaptersAfter[c] = chapters[c]

\* A book that had an outline and a chapter was deleted, and all three are gone.
C6_Witness ==
    /\ IssuedBooks \ DOMAIN books # {}
    /\ IssuedOutlines \ DOMAIN outlines # {}
    /\ IssuedChapters \ DOMAIN chapters # {}

C10_ApproveTwiceAsOnce ==
    \A id \in DOMAIN outlines :
        LET bookId   == outlines[id].bookId
            outlines1 == approveOutline(outlines, id)
            books1    == approveOutlineBooks(books, outlines, id)
            outlines2 == approveOutline(outlines1, id)
            books2    == approveOutlineBooks(books1, outlines1, id)
        IN  /\ outlines1[id].isApproved
            /\ outlines1[id].approvedAt # "null"
            /\ outlines2[id].isApproved = outlines1[id].isApproved
            /\ bookId \in DOMAIN books =>
                  /\ books1[bookId].status = "approved"
                  /\ books2[bookId].status = books1[bookId].status

\* An approved outline with its approval time whose book, of another id than
\* the outline's, is approved.
C10_Witness ==
    \E o \in DOMAIN outlines :
        /\ outlines[o].isApproved
        /\ outlines[o].approvedAt = "now"
        /\ outlines[o].bookId \in DOMAIN books
        /\ outlines[o].bookId # o
        /\ books[outlines[o].bookId].status = "approved"

\* C11: no stored book has a targetWordCount of zero or less and no stored
\* chapter a chapterNumber of zero or less.
C11_NumbersArePositive ==
    /\ \A b \in DOMAIN books : books[b].targetWordCount > 0
    /\ \A c \in DOMAIN chapters : chapters[c].chapterNumber > 0

\* C13: a book has at most one outline.
C13_OneOutlinePerBook ==
    \A b \in IssuedBooks : Cardinality(OutlinesOf(outlines, b)) <= 1

\* C14: no two stored chapters of a book have the same chapterNumber.
C14_ChapterNumbersUnique ==
    \A c, d \in DOMAIN chapters :
        /\ chapters[c].bookId = chapters[d].bookId
        /\ chapters[c].chapterNumber = chapters[d].chapterNumber
        => c = d

\* C15: a step that creates a chapter with content stores it with the word
\* count of that content, and leaves its book, when there is one, with the
\* sum of its chapters' word counts and the progress and status of that sum.
C15_CreatedChapterIsCounted ==
    [][\A c \in DOMAIN chapters' \ DOMAIN chapters :
          Truthy(chapters'[c].content) =>
              LET b     == chapters'[c].bookId
                  words == StoredWords(chapters', b)
              IN  /\ chapters'[c].wordCount = countWords(chapters'[c].content)
                  /\ b \in DOMAIN books' =>
                        /\ books'[b].currentWordCount = words
                        /\ books'[b].progress =
                              ClaimedProgress(words, books'[b].targetWordCount)
                        /\ books'[b].status =
                              IF books'[b].progress = 100 THEN "completed"
                              ELSE "writing"]_vars

\* C12: every stored outline has totalChapters equal to the length of its
\* chapter plan and totalEstimatedWords equal to the sum of the entries'
\* estimatedWordCount.
C12_TotalsMatchPlan ==
    \A o \in DOMAIN outlines :
        /\ outlines[o].totalChapters = Len(outlines[o].chapters)
        /\ outlines[o].totalEstimatedWords = SumSeq(outlines[o].chapters)

\* C16: the text export of a book lists its chapters by ascending
\* chapterNumber, in the table of contents and in the body, every chapter
\* once, each heading followed by the content of its own chapter.
C16_ExportInNumberOrder ==
    \A b \in DOMAIN books, options \in ExportOptions :
        exportBook(books, chapters, b, "txt") = "artifact" =>
            LET out      == exportBookText(books, chapters, b, options)
                Of(kind) == {i \in 1..Len(out) : out[i].kind = kind}
            IN  /\ \A kind \in {"toc", "heading"} : \A i, j \in Of(kind) :
                      out[i].chapterNumber < out[j].chapterNumber => i < j
                /\ \A i \in Of("heading") :
                      /\ i + 1 \in Of("body")
                      /\ out[i + 1].id = out[i].id
                      /\ out[i].chapterNumber = chapters[out[i].id].chapterNumber
                      /\ Truthy(chapters[out[i].id].content) =>
                            out[i + 1].content = chapters[out[i].id].content
                /\ {out[i].id : i \in Of("heading")} = ChaptersOf(chapters, b)
                /\ Cardinality(Of("heading")) = Cardinality(ChaptersOf(chapters, b))
                /\ options.includeTableOfContents =>
                      {out[i].id : i \in Of("toc")} = ChaptersOf(chapters, b)

\* A completed book whose first stored chapter has the larger number, and
\* whose export begins with the other chapter.
C16_Witness ==
    \E b \in DOMAIN books : \E c, d \in ChaptersOf(chapters, b) :
        /\ c < d
        /\ chapters[c].chapterNumber > chapters[d].chapterNumber
        /\ exportBook(books, chapters, b, "txt") = "artifact"
        /\ exportBookText(books, chapters, b, [includeTableOfContents |-> FALSE])[1].id = d

\* C17: exportBook with a format token outside the supported ones returns no
\* artifact, and for an existing completed book with a chapter it fails with
\* the unsupported-format error.
C17_UnsupportedFormatFails ==
    \A b \in IssuedBooks, format \in FormatTokens \ Formats :
        LET result == exportBook(books, chapters, b, format)
        IN  /\ result # "artifact"
            /\ (/\ b \in DOMAIN books
                /\ books[b].status = "completed"
                /\ HasChapter(b)) => result = "Unsupported export format"

\* A completed book with a chapter, for which "mobi" is refused as unsupported.
C17_Witness ==
    \E b \in DOMAIN books :
        /\ books[b].status = "completed"
        /\ HasChapter(b)
        /\ exportBook(books, chapters, b, "mobi") = "Unsupported export format"

\* C17 as stated: exportBook with a format token outside the supported ones
\* fails with the unsupported-format error, whatever the book.
C17_AlwaysUnsupportedError ==
    \A b \in IssuedBooks, format \in FormatTokens \ Formats :
        exportBook(books, chapters, b, format) = "Unsupported export format"

\* The demo user has no Settings record, or its openrouterApiKey is null or
\* empty.
NoCredential ==
    \/ getSettings(settings, DEMO_USER_ID) = <<>>
    \/ getSettings(settings, DEMO_USER_ID)[1].openrouterApiKey \in {"null", ""}

\* C18: a generation request (generateBookIdeas, generateOutline or
\* generateChapter) made while no credential is configured ends at once with
\* the key error: no call to the backend has gone out and nothing is stored.
C18_NoKeyNoCall ==
    [][(gen.pc \in {"idle", "done"} /\ gen' # gen /\ NoCredential) =>
            /\ gen'.pc = "done"
            /\ gen'.error = NoKeyError
            /\ gen'.models = <<>>
            /\ UNCHANGED <<books, outlines, chapters, nextId, bookIdeas>>]_vars

\* A chapter request has ended on the key error with a record whose key is
\* the empty text.
C18_Witness ==
    /\ gen.pc = "done" /\ gen.kind = "chapter" /\ gen.error = NoKeyError
    /\ getSettings(settings, DEMO_USER_ID) # <<>>
    /\ getSettings(settings, DEMO_USER_ID)[1].openrouterApiKey = ""

\* What one request has heard and done so far keeps to the fallback rule.
FallbackRule ==
    /\ Len(gen.models) <= 2
    /\ Len(gen.statuses) <= Len(gen.models)
    /\ Len(gen.models) = 2 =>
            /\ gen.statuses[1] = "401"
            /\ gen.models[1] # DefaultModel
            /\ gen.models[2] = DefaultModel
    /\ \A i \in DOMAIN gen.statuses :
            (gen.statuses[i] # "200"
                /\ ~(i = 1 /\ gen.statuses[1] = "401" /\ gen.models[1] # DefaultModel)) =>
            /\ gen.pc = "done"
            /\ gen.error \in {AuthError, ApiError, InvalidError, FetchError}
            /\ Len(gen.models) = i

\* C19: one generation request makes at most two calls to the backend and
\* ends; the second call goes out only after a 401 on a model other than the
\* default, and every other answer that is not a completion ends the request
\* with an error after the call it answers, whatever the settings requests
\* running in between store.
C19_FallbackDoesNotLoop ==
    /\ []FallbackRule
    /\ (gen.pc = "fetching") ~> (gen.pc = "done")

\* A request has ended on the second 401, the first having come on another
\* model.
C19_Witness ==
    /\ gen.pc = "done" /\ gen.error = AuthError
    /\ gen.statuses = <<"401", "401">>
    /\ gen.models = <<"other/model", DefaultModel>>

\* The request that has just ended was answered with the outline of n
\* chapters in some dressing, and with the idea list of n ideas.
AnsweredOutline(n) ==
    /\ gen.pc = "done" /\ gen.kind = "outline"
    /\ \E d \in Dressings : gen.response = dressed(d, outlineText(n))

AnsweredIdeas(n) ==
    /\ gen.pc = "done" /\ gen.kind = "ideas"
    /\ \E d \in Dressings : gen.response = dressed(d, ideasText(n))

\* C20: a response that carries a JSON array or object, bare or dressed in
\* prose or code fences, is parsed as that array or object: a request
\* answered with an outline object of n chapters succeeds and stores an
\* outline with totalChapters n, a request answered with an idea list
\* succeeds, and a request answered with a text holding no bracket ends on
\* the parse error.
C20_ExtractionFindsJson ==
    /\ \A n \in 0..MaxChapters :
            AnsweredOutline(n) =>
                /\ gen.error = "none"
                /\ nextId.outline > 1
                /\ outlines[nextId.outline - 1].totalChapters = n
    /\ \A n \in 0..MaxChapters : AnsweredIdeas(n) => gen.error = "none"
    /\ (gen.pc = "done" /\ gen.response # <<>>
            /\ \A i \in DOMAIN gen.response : gen.response[i] \notin JsonTokens \ {"x"}) =>
            gen.error = ParseError

\* C21: a generation request that ends on an error (no key, an error status,
\* a failed connection, a completion without choices, a text that does not
\* parse) creates and modifies no book, outline, chapter or idea.
C21_FailedGenerationStoresNothing ==
    [][(gen' # gen /\ gen'.pc = "done" /\ gen'.error # "none") =>
            UNCHANGED <<books, outlines, chapters, bookIdeas, nextId>>]_vars

\* A chapter request has ended on an error status of the backend.
C21_Witness ==
    gen.pc = "done" /\ gen.kind = "chapter" /\ gen.error = ApiError

\* C22: an update, an approval or a delete on an id that is not in the store
\* leaves every map as it is: updateBook and deleteBook on a missing book id
\* (whatever outlines and chapters carry that id), updateOutline and
\* approveOutline on a missing outline id, updateChapter on a missing chapter
\* id.
C22_MissingIdChangesNothing ==
    /\ \A id \in IssuedBooks \ DOMAIN books :
            /\ \A updates \in BookUpdates : updateBook(books, id, updates) = books
            /\ deleteBookBooks(books, id) = books
            /\ deleteBookOutlines(outlines, id) = outlines
            /\ deleteBookChapters(chapters, id) = chapters
    /\ \A id \in IssuedOutlines \ DOMAIN outlines :
            /\ \A updates \in OutlineUpdates : updateOutline(outlines, id, updates) = outlines
            /\ approveOutline(outlines, id) = outlines
            /\ approveOutlineBooks(books, outlines, id) = books
    /\ \A id \in IssuedChapters \ DOMAIN chapters :
            \A updates \in ChapterUpdates :
                /\ updateChapterChapters(chapters, id, updates) = chapters
                /\ updateChapterBooks(books, chapters, id, updates) = books

\* C23: no two stored Settings records have the same owner.
C23_OneSettingsPerOwner ==
    \A i, j \in DOMAIN settings :
        settings[i].userId = settings[j].userId => i = j

\* C24: updateChapter(id, {content}) on a stored chapter leaves it with
\* wordCount equal to the number of words of the content, 0 for null or the
\* empty text, whatever its wordCount was before.
C24_WordCountFollowsContent ==
    \A id \in DOMAIN chapters, updates \in ContentUpdates :
        updateChapterChapters(chapters, id, updates)[id].wordCount =
            IF Truthy(updates.content) THEN countWords(updates.content) ELSE 0


\* C25: after an updateChapter call that supplies content, the parent book
\* has status completed when the progress the call stored is 100 and status
\* writing otherwise, whatever its status was before the call.
C25_StatusFollowsProgress ==
    \A id \in DOMAIN chapters, updates \in ContentUpdates :
        LET booksAfter == updateChapterBooks(books, chapters, id, updates)
            bookId     == chapters[id].bookId
        IN  bookId \in DOMAIN booksAfter =>
                booksAfter[bookId].status =
                    IF booksAfter[bookId].progress = 100 THEN "completed" ELSE "writing"

\* A book the chapter updates brought to completed, and an update of its
\* chapter that takes it back to writing.
C25_Witness ==
    \E id \in DOMAIN chapters, updates \in ContentUpdates :
        LET bookId == chapters[id].bookId
        IN  /\ bookId \in DOMAIN books
            /\ chapters[id].wordCount = 1
            /\ books[bookId].status = "completed"
            /\ books[bookId].progress = 100
            /\ updateChapterBooks(books, chapters, id, updates)[bookId].status = "writing"


\* The places of a text where a line begins: its start and after each break.
LineStarts(text) == {i \in 1..(Len(text) + 1) : i = 1 \/ text[i - 1] = LF}

\* The line that begins at place i, up to the next break or the end.
LineAt(text, i) ==
    LET ends == {j \in i..(Len(text) + 1) : j = Len(text) + 1 \/ text[j] = LF}
        end  == CHOOSE j \in ends : \A k \in ends : j <= k
    IN  SubSeq(text, i, end - 1)

NonBlank(line) == \E k \in DOMAIN line : line[k] # " "

NonBlankStarts(text) == {i \in LineStarts(text) : NonBlank(LineAt(text, i))}

\* The k-th smallest member of a set of numbers.
Nth(set, k) == CHOOSE i \in set : Cardinality({j \in set : j <= i}) = k

\* How often the markup opens, and closes, a paragraph in a rendered text.
Opened(html) ==
    Cardinality({i \in 1..(Len(html) - 2) : SubSeq(html, i, i + 2) = <<"<", "p", ">">>})
Closed(html) ==
    Cardinality({i \in 1..(Len(html) - 3) :
        SubSeq(html, i, i + 3) = <<"<", "/", "p", ">">>})

\* C26: the content of every stored chapter is rendered as one paragraph per
\* non-blank line, in the order of the lines: the k-th paragraph is the k-th
\* non-blank line without the blanks around it, there are as many paragraphs
\* as non-blank lines, and the HTML form opens and closes as many.
C26_OneParagraphPerLine ==
    \A c \in DOMAIN chapters :
        LET text       == contentOrEmpty(chapters[c])
            paragraphs == parseContentToParagraphs(text)
            html       == parseContentToHTML(text)
            starts     == NonBlankStarts(text)
        IN  /\ Len(paragraphs) = Cardinality(starts)
            /\ \A k \in DOMAIN paragraphs :
                   paragraphs[k] = Trim(LineAt(text, Nth(starts, k)))
            /\ Opened(html) = Cardinality(starts)
            /\ Closed(html) = Cardinality(starts)

\* A stored chapter of two paragraphs whose content holds a blank line too.
C26_Witness ==
    \E c \in DOMAIN chapters :
        LET text == contentOrEmpty(chapters[c])
        IN  /\ Len(parseContentToParagraphs(text)) = 2
            /\ Cardinality(LineStarts(text)) = 3


\* The place of a status in the order idea < outline < approved < writing <
\* completed.
Rank(status) ==
    CASE status = "idea"      -> 0
      [] status = "outline"   -> 1
      [] status = "approved"  -> 2
      [] status = "writing"   -> 3
      [] status = "completed" -> 4

\* C27: from every reachable state, neither approveOutline of a stored
\* outline nor an outline-creation request for a stored book moves the
\* book's status back in the order idea < outline < approved < writing <
\* completed.
C27_StatusNeverMovesBack ==
    /\ \A o \in DOMAIN outlines :
           LET b == outlines[o].bookId
           IN  b \in DOMAIN books =>
                   Rank(approveOutlineBooks(books, outlines, o)[b].status)
                       >= Rank(books[b].status)
    /\ \A b \in DOMAIN books :
           Rank(postOutlineBooks(books, b)[b].status) >= Rank(books[b].status)


\* C28: no step of a generation request, from its first call to its end,
\* changes the stored Settings.
C28_GenerationKeepsSettings ==
    [][gen' # gen => settings' = settings]_vars


\* C29: in every reachable state each stored outline and each stored chapter
\* names a stored book, and each stored chapter names a stored outline of
\* that same book.
C29_ReferentialIntegrity ==
    /\ \A o \in DOMAIN outlines : outlines[o].bookId \in DOMAIN books
    /\ \A c \in DOMAIN chapters :
           /\ chapters[c].bookId \in DOMAIN books
           /\ chapters[c].outlineId \in DOMAIN outlines
           /\ outlines[chapters[c].outlineId].bookId = chapters[c].bookId


\* The bodies of PUT /api/chapters/:id that carry no content.
OtherUpdates == ChapterUpdates \ ContentUpdates

\* C30: updateChapter with updates that carry no content, on a stored
\* chapter, leaves the chapter's content and wordCount as they were and the
\* book map, the parent book with it, as it was.
C30_NoContentNoRecount ==
    \A id \in DOMAIN chapters, updates \in OtherUpdates :
        LET chaptersAfter == updateChapterChapters(chapters, id, updates)
        IN  /\ chaptersAfter[id].content = chapters[id].content
            /\ chaptersAfter[id].wordCount = chapters[id].wordCount
            /\ updateChapterBooks(books, chapters, id, updates) = books

\* A chapter that holds a word, under a book whose status is not the one a
\* recount would store, and an update that changes its number alone.
C30_Witness ==
    \E id \in DOMAIN chapters, updates \in OtherUpdates :
        /\ chapters[id].wordCount = 1
        /\ chapters[id].bookId \in DOMAIN books
        /\ books[chapters[id].bookId].status = "approved"
        /\ updateChapterChapters(chapters, id, updates)[id].chapterNumber
               # chapters[id].chapterNumber

====
